---- MODULE Spec2Model ----
(***************************************************************************)
(* The poppiCoin study blockchain.  One run follows one of the programs of *)
(* the repository:                                                         *)
(*   program = "pow"   the proof-of-work chain of index.js,                *)
(*   program = "tx"    the transaction ledger (second program of part_001),*)
(*   program = "hash"  the hash-only chain (first program of part_001),    *)
(*   program = "mine"  Block.mineBlock called directly (SpecMine).         *)
(*   program = "forge" index.js with blocks whose nonce has two digits     *)
(*                     and fields assigned together (SpecForge).           *)
(* JavaScript strings are sequences of one-character strings, so that the  *)
(* `+` of calculateHash is a real concatenation.  A SHA-256 digest is a    *)
(* string of HashLen hexadecimal digits followed by an image of the hashed *)
(* text (the digest is collision free, as SHA-256 is taken to be).         *)
(***************************************************************************)
EXTENDS Integers, Sequences, FiniteSets, TLC

\* ------------------------------------------------------------- bounds
MaxChain == 3        \* blocks a chain may hold, the genesis block included
HashLen == 2         \* digits of a digest that the mining loop can inspect
MaxNonce == 12       \* iterations of the mining loop that are followed
MaxPending == 2      \* transactions the pending pool may hold
MaxDifficulty == 4   \* largest difficulty handed to mineBlock directly

\* ------------------------------------------------- program constants
InitialDifficulty == 2
InitialMiningReward == 100

\* ------------------------------------------------------------ strings
Str_undefined == <<"u", "n", "d", "e", "f", "i", "n", "e", "d">>
Str_null == <<"n", "u", "l", "l">>
Str_empty == <<>>
Str_zero == <<"0">>
Str_amountKey == <<"{", "\"", "a", "m", "o", "u", "n", "t", "\"", ":">>
Str_genesis == <<"\"", "G", "e", "n", "e", "s", "i", "s", " ", "b", "l", "o", "c", "k", "\"">>

DigitChars == <<"0", "1", "2", "3", "4", "5", "6", "7", "8", "9">>

\* Number.prototype.toString for a non-negative integer
RECURSIVE NumberToString(_)
NumberToString(n) ==
    IF n < 10 THEN <<DigitChars[n + 1]>>
    ELSE NumberToString(n \div 10) \o <<DigitChars[(n % 10) + 1]>>

\* String.prototype.substring(from, to), 0 <= from, clamped to the length
substring(s, from, to) ==
    SubSeq(s, from + 1, IF to > Len(s) THEN Len(s) ELSE to)

\* Array(n + 1).join("0"): the string of n zeros
ArrayJoinZero(n) == [i \in 1..n |-> "0"]

\* ------------------------------------------------------- block payloads
\* data of a block of index.js: { amount: v }, v a number, null or NaN;
\* the genesis block holds the string "Genesis block"
Amount(v) == [kind |-> "amount", v |-> v]
AmountNull == [kind |-> "amountNull", v |-> 0]
AmountNaN == [kind |-> "amountNaN", v |-> 0]
GenesisData == [kind |-> "genesis", v |-> 0]
\* a payload that is a number
Number(v) == [kind |-> "number", v |-> v]

JSONstringify(d) ==
    CASE d.kind = "amount" -> Str_amountKey \o NumberToString(d.v) \o <<"}">>
      [] d.kind = "amountNull" -> Str_amountKey \o Str_null \o <<"}">>
      [] d.kind = "amountNaN" -> Str_amountKey \o Str_null \o <<"}">>
      [] d.kind = "genesis" -> Str_genesis
      [] d.kind = "number" -> NumberToString(d.v)

\* ---------------------------------------------------------------- SHA256
\* weight of one character in the digest's leading digits
CharCode(c) ==
    CASE c = "0" -> 0 [] c = "1" -> 1 [] c = "2" -> 2 [] c = "3" -> 3
      [] c = "4" -> 4 [] c = "5" -> 5 [] c = "6" -> 6 [] c = "7" -> 7
      [] c = "8" -> 8 [] c = "9" -> 9 [] c = "u" -> 3 [] c = "n" -> 2
      [] c = "d" -> 1 [] c = "e" -> 2 [] OTHER -> 1

\* the sum of the weights of s[lo..hi]
RECURSIVE SumRange(_, _, _)
SumRange(s, lo, hi) ==
    IF lo > hi THEN 0
    ELSE IF lo = hi THEN CharCode(s[lo])
    ELSE LET mid == (lo + hi) \div 2
         IN  SumRange(s, lo, mid) + SumRange(s, mid + 1, hi)

SumCodes(s) == SumRange(s, 1, Len(s))

RECURSIVE Pow2(_)
Pow2(n) == IF n = 0 THEN 1 ELSE 2 * Pow2(n - 1)

\* the HashLen leading digits of the digest of s, most significant first
DigestDigits(s) ==
    LET h == SumCodes(s) % Pow2(HashLen)
    IN  [i \in 1..HashLen |->
            IF (h \div Pow2(HashLen - i)) % 2 = 0 THEN "0" ELSE "1"]

\* SHA256(s).toString(): leading digits, then the rest of the digest, which
\* determines s and holds no hexadecimal digit
SHA256(s) == DigestDigits(s) \o [i \in 1..Len(s) |-> "#" \o s[i]]

\* ------------------------------------------------------------ the state
VARIABLES
    program,             \* which of the repository's programs is running
    chain,               \* Blockchain.chain
    difficulty,          \* Blockchain.difficulty
    pendingTransaction,  \* Blockchain.pendingTransaction (transaction ledger)
    miningReward,        \* Blockchain.miningReward (transaction ledger)
    block,               \* a Block that mineBlock is called on directly
    last                 \* the call made last, its arguments and its result

vars == <<program, chain, difficulty, pendingTransaction, miningReward, block, last>>

\* createTimeStamp() of utils.js: an opaque string
TimeStamps == {<<"1">>, <<"1", "2">>}

\* ----------------------------------------------------- Block (index.js)
\* the text index.js hands to SHA256; nonceText is "undefined" while the
\* constructor runs, since this.nonce is assigned after this.hash
PowHashText(index, prevHash, timestamp, data, nonceText) ==
    NumberToString(index) \o prevHash \o timestamp \o JSONstringify(data) \o nonceText

PowCalculateHash(b) ==
    SHA256(PowHashText(b.index, b.prevHash, b.timestamp, b.data, NumberToString(b.nonce)))

\* new Block(index, timestamp, data, prevHash); ref is the object's identity
PowBlock(ref, index, timestamp, data, prevHash) ==
    [ref |-> ref, index |-> index, timestamp |-> timestamp, data |-> data,
     prevHash |-> prevHash,
     hash |-> SHA256(PowHashText(index, prevHash, timestamp, data, Str_undefined)),
     nonce |-> 0]

\* --------------------------------------- Block (transaction ledger)
\* this.index and this.data do not exist on these blocks: both read undefined
TxHashText(prevHash, timestamp, nonceText) ==
    Str_undefined \o prevHash \o timestamp \o Str_undefined \o nonceText

TxCalculateHash(b) ==
    SHA256(TxHashText(b.prevHash, b.timestamp, NumberToString(b.nonce)))

\* a Block that holds its transactions in the reverse order
TxBlock_Reversed(ref, timestamp, transaction, prevHash) ==
    [ref |-> ref, timestamp |-> timestamp,
     transaction |-> [transaction EXCEPT
                        !.items = [k \in 1..Len(@) |-> @[Len(@) + 1 - k]]],
     prevHash |-> prevHash,
     hash |-> SHA256(TxHashText(prevHash, timestamp, Str_undefined)),
     nonce |-> 0]

\* new Block(timestamp, transaction, prevHash)
TxBlock(ref, timestamp, transaction, prevHash) ==
    [ref |-> ref, timestamp |-> timestamp, transaction |-> transaction,
     prevHash |-> prevHash,
     hash |-> SHA256(TxHashText(prevHash, timestamp, Str_undefined)),
     nonce |-> 0]

\* ------------------------------------------- Block (hash-only chain)
\* the text the hash-only chain hands to SHA256: these blocks have no nonce
HashOnlyHashText(index, prevHash, timestamp, data) ==
    NumberToString(index) \o prevHash \o timestamp \o JSONstringify(data)

HashOnlyCalculateHash(b) ==
    SHA256(HashOnlyHashText(b.index, b.prevHash, b.timestamp, b.data))

\* new Block(index, timestamp, data, prevHash)
HashOnlyBlock(ref, index, timestamp, data, prevHash) ==
    [ref |-> ref, index |-> index, timestamp |-> timestamp, data |-> data,
     prevHash |-> prevHash,
     hash |-> SHA256(HashOnlyHashText(index, prevHash, timestamp, data))]

\* Block.calculateHash of the program that is running
calculateHash(b) ==
    CASE program = "tx" -> TxCalculateHash(b)
      [] program = "hash" -> HashOnlyCalculateHash(b)
      [] OTHER -> PowCalculateHash(b)

\* ---------------------------------------------------------- mineBlock
\* mineBlock whose test looks past the first character of the hash
NotMined_SkipsFirst(b, d) == substring(b.hash, 1, d) # ArrayJoinZero(d - 1)

\* the loop condition of mineBlock
NotMined(b, d) == substring(b.hash, 0, d) # ArrayJoinZero(d)

\* the loop of mineBlock, followed for at most `fuel` iterations;
\* returns = FALSE when the loop is still running after them
RECURSIVE MineLoop(_, _, _)
MineLoop(b, d, fuel) ==
    IF NotMined(b, d)
    THEN IF fuel = 0
         THEN [returns |-> FALSE, block |-> b]
         ELSE LET b1 == [b EXCEPT !.nonce = @ + 1]
                  b2 == [b1 EXCEPT !.hash = calculateHash(b1)]
              IN  MineLoop(b2, d, fuel - 1)
    ELSE [returns |-> TRUE, block |-> b]

mineBlock(b, d) == MineLoop(b, d, MaxNonce)

\* ------------------------------------------------------------ Blockchain
\* chain[j] of the source (indices from 0)
At(j) == chain[j + 1]
Length == Len(chain)

NoResult == [valid |-> TRUE, kind |-> "none", index |-> 0]
\* a call of a method: its name, an argument, what it returned
Call(op, i, result) ==
    [op |-> op, i |-> i, result |-> result, tamper |-> "none", at |-> 0,
     before |-> <<>>, address |-> "none", value |-> 0]
\* a call of a method that takes an address or returns a number
Returned(op, address, value) ==
    [Call(op, 0, NoResult) EXCEPT !.address = address, !.value = value]
\* an assignment to a field of chain[j] from outside the classes; `before` is
\* the serialized payload the block had until then
Tampering(kind, j, before) ==
    [op |-> "assignment", i |-> j, result |-> NoResult, tamper |-> kind, at |-> j,
     before |-> before, address |-> "none", value |-> 0]

\* createGenesisBlock() of index.js
PowGenesisBlock(timestamp) == PowBlock(0, 0, timestamp, GenesisData, Str_zero)

\* createGenesisBlock() of the hash-only chain
HashOnlyGenesisBlock(timestamp) == HashOnlyBlock(0, 0, timestamp, GenesisData, Str_zero)

\* the string "Genesis block" as the transaction ledger iterates it: one
\* character at a time, none of which has fromAddress, toAddress or amount
Undefined == "undefined"
GenesisCharacters ==
    [i \in 1..13 |->
        [ref |-> 0, fromAddress |-> Undefined, toAddress |-> Undefined, amount |-> 0]]

\* an array object: ref is its identity, items what it holds
Array(ref, items) == [ref |-> ref, kind |-> "array", items |-> items]

\* a genesis payload that is a number
GenesisTransaction_Number == [ref |-> 0, kind |-> "number", items |-> <<>>]

\* the payload of the genesis block: a string, which has no identity of
\* its own and cannot be pushed to
GenesisTransaction == [ref |-> 0, kind |-> "string", items |-> GenesisCharacters]

\* for (const trans of payload) runs over arrays and strings and raises a
\* TypeError on anything else
Iterable(payload) == payload.kind \in {"array", "string"}

\* the identity of an array literal: one that no payload and no pool has
\* (the pool is the array made last)
NewArray == pendingTransaction.ref + 1

\* the identity of a Transaction constructed when the chain is c and the
\* pool holds n transactions: one that no transaction has
NewTransaction(c, n) == Len(c) * (MaxPending + 1) + n

\* createGenesisBlock() of the transaction ledger
TxGenesisBlock(timestamp) == TxBlock(0, timestamp, GenesisTransaction, Str_zero)

\* a getLatestBlock that returns the first block
getLatestBlock_First == chain[1]

\* getLatestBlock(): chain[chain.length - 1]
getLatestBlock == chain[Len(chain)]

\* an object identity no block of the chain has
NewRef == Len(chain)

\* the chain once the object b.ref holds the fields of b (an assignment to a
\* field of a block shows through every place of the chain that holds it)
Store(c, b) == [j \in 1..Len(c) |-> IF c[j].ref = b.ref THEN b ELSE c[j]]

\* a push that puts the block in front of the chain
Push_Front(c, b) == <<b>> \o c

\* chain.push(b)
Push(c, b) == Append(c, b)

\* isChainValid(): the two checks made on block j of the chain c
HashMismatch(c, j) == c[j + 1].hash # calculateHash(c[j + 1])
\* isChainValid without its second check
LinkMismatch_Dropped(c, j) == FALSE
LinkMismatch(c, j) == c[j + 1].prevHash # c[j].hash

\* an isChainValid that checks the link of a block before its hash
RECURSIVE ValidationLoop_LinkFirst(_, _)
ValidationLoop_LinkFirst(c, i) ==
    IF i >= Len(c) THEN NoResult
    ELSE IF LinkMismatch(c, i)
         THEN [valid |-> FALSE, kind |-> "Prev hash mismatch", index |-> i]
    ELSE IF HashMismatch(c, i)
         THEN [valid |-> FALSE, kind |-> "Hash mismatch", index |-> i]
    ELSE ValidationLoop_LinkFirst(c, i + 1)

\* an isChainValid that also asks for the proof of work of each block
RECURSIVE ValidationLoop_ChecksWork(_, _)
ValidationLoop_ChecksWork(c, i) ==
    IF i >= Len(c) THEN NoResult
    ELSE IF HashMismatch(c, i) \/ NotMined(c[i + 1], difficulty)
         THEN [valid |-> FALSE, kind |-> "Hash mismatch", index |-> i]
    ELSE IF LinkMismatch(c, i)
         THEN [valid |-> FALSE, kind |-> "Prev hash mismatch", index |-> i]
    ELSE ValidationLoop_ChecksWork(c, i + 1)

\* isChainValid(): the loop from index i on; what it logs and returns
RECURSIVE ValidationLoop(_, _)
ValidationLoop(c, i) ==
    IF i >= Len(c) THEN NoResult
    ELSE IF HashMismatch(c, i)
         THEN [valid |-> FALSE, kind |-> "Hash mismatch", index |-> i]
    ELSE IF LinkMismatch(c, i)
         THEN [valid |-> FALSE, kind |-> "Prev hash mismatch", index |-> i]
    ELSE ValidationLoop(c, i + 1)

\* an isChainValid whose loop also recomputes the hash of index 0
Validation_FromGenesis(c) ==
    IF HashMismatch(c, 0)
    THEN [valid |-> FALSE, kind |-> "Hash mismatch", index |-> 0]
    ELSE ValidationLoop(c, 1)

\* isChainValid() over the chain c: the loop starts at index 1
Validation(c) == ValidationLoop(c, 1)

ValidationReport == Validation(chain)

isChainValid == ValidationReport.valid

\* ------------------------------------------------------------- actions
Indices == {1}
BlockData == {Amount(4), AmountNull}
TamperedData == {Amount(100), AmountNaN}

Init ==
    /\ program \in {"pow", "tx", "hash"}
    /\ \E t \in TimeStamps :
          chain = CASE program = "pow" -> <<PowGenesisBlock(t)>>
                    [] program = "tx" -> <<TxGenesisBlock(t)>>
                    [] program = "hash" -> <<HashOnlyGenesisBlock(t)>>
    /\ difficulty = InitialDifficulty
    /\ pendingTransaction = Array(1, <<>>)
    /\ miningReward = IF program = "tx" THEN InitialMiningReward ELSE 0
    /\ block = PowGenesisBlock(<<"1">>)
    /\ last = Call("constructor", 0, NoResult)

\* addBlock(newBlock)
addBlock(newBlock) ==
    LET linked == [newBlock EXCEPT !.prevHash = getLatestBlock.hash]
        mined == mineBlock(linked, difficulty)
    IN  /\ mined.returns
        /\ chain' = Push(Store(chain, mined.block), mined.block)
        /\ last' = Call("addBlock", newBlock.ref, NoResult)
        /\ UNCHANGED <<program, difficulty, pendingTransaction, miningReward, block>>

\* addBlock(new Block(index, createTimeStamp(), data))
AddBlock ==
    /\ program = "pow" /\ last.tamper = "none" /\ Length < MaxChain
    /\ \E index \in Indices, t \in TimeStamps, d \in BlockData :
          addBlock(PowBlock(NewRef, index, t, d, Str_empty))

\* addBlock(chain[j]): the argument is a block the chain already holds
AddBlockAgain ==
    /\ program = "pow" /\ last.tamper = "none" /\ Length < MaxChain
    /\ \E j \in 0..(Length - 1) : addBlock(At(j))

\* poppiCoin.difficulty = d, before the first block is added
SetDifficulty ==
    /\ program = "pow" /\ last.op = "constructor"
    /\ \E d \in 0..MaxDifficulty :
          /\ d # difficulty
          /\ difficulty' = d
          /\ last' = Call("difficulty", d, NoResult)
    /\ UNCHANGED <<program, chain, pendingTransaction, miningReward, block>>

\* the methods that only read; the ledger a query sees right after another
\* query is the one that query saw, so queries are followed one at a time
Queries == {"getBalanceOfAddress", "isChainValid", "getLatestBlock"}

\* console.log(poppiCoin.isChainValid())
IsChainValid ==
    /\ last.op \notin Queries
    /\ last' = [last EXCEPT !.op = "isChainValid", !.result = ValidationReport]
    /\ UNCHANGED <<program, chain, difficulty, pendingTransaction, miningReward, block>>

\* chain[j].data = d, the stored hash left as it is
TamperData ==
    /\ program \in {"pow", "hash"} /\ last.tamper = "none"
    /\ \E j \in 0..(Length - 1), d \in TamperedData :
          /\ d # At(j).data
          /\ chain' = Store(chain, [At(j) EXCEPT !.data = d])
          /\ last' = Tampering("data", j, JSONstringify(At(j).data))
    /\ UNCHANGED <<program, difficulty, pendingTransaction, miningReward, block>>

\* a re-hash that leaves the stored hash as it was
TamperDataRehash_Stale ==
    /\ program \in {"pow", "hash"} /\ last.tamper = "none"
    /\ \E j \in 0..(Length - 1), d \in TamperedData :
          /\ d # At(j).data
          /\ chain' = Store(chain, [At(j) EXCEPT !.data = d])
          /\ last' = Tampering("dataRehash", j, JSONstringify(At(j).data))
    /\ UNCHANGED <<program, difficulty, pendingTransaction, miningReward, block>>

\* chain[j].data = d; chain[j].hash = chain[j].calculateHash()
TamperDataRehash ==
    /\ program \in {"pow", "hash"} /\ last.tamper = "none"
    /\ \E j \in 0..(Length - 1), d \in TamperedData :
          /\ d # At(j).data
          /\ LET b == [At(j) EXCEPT !.data = d]
             IN  chain' = Store(chain, [b EXCEPT !.hash = calculateHash(b)])
          /\ last' = Tampering("dataRehash", j, JSONstringify(At(j).data))
    /\ UNCHANGED <<program, difficulty, pendingTransaction, miningReward, block>>

\* the genesis block with one field other than data and hash assigned
GenesisForgeries ==
    {[At(0) EXCEPT !.timestamp = <<"9">>],
     [At(0) EXCEPT !.index = 7],
     [At(0) EXCEPT !.prevHash = Str_empty]}
    \cup (IF program = "pow" THEN {[At(0) EXCEPT !.nonce = 5]} ELSE {})

\* chain[0].timestamp = ..., chain[0].index = ..., chain[0].prevHash = ...,
\* chain[0].nonce = ...; the stored hash left as it is
TamperGenesis ==
    /\ program \in {"pow", "hash"} /\ last.tamper = "none"
    /\ \E forged \in GenesisForgeries :
          /\ chain' = Store(chain, forged)
          /\ last' = Tampering("genesis", 0, <<>>)
    /\ UNCHANGED <<program, difficulty, pendingTransaction, miningReward, block>>

\* ------------------------------------- actions of the hash-only chain
\* addBlock(newBlock) of the hash-only chain: link, recompute the hash, push
HashOnlyAddBlock(newBlock) ==
    LET linked == [newBlock EXCEPT !.prevHash = getLatestBlock.hash]
        hashed == [linked EXCEPT !.hash = HashOnlyCalculateHash(linked)]
    IN  /\ chain' = Push(Store(chain, hashed), hashed)
        /\ last' = Call("addBlock", newBlock.ref, NoResult)
        /\ UNCHANGED <<program, difficulty, pendingTransaction, miningReward, block>>

\* addBlock(new Block(index, createTimeStamp(), data))
AddHashedBlock ==
    /\ program = "hash" /\ last.tamper = "none" /\ Length < MaxChain
    /\ \E index \in Indices, t \in TimeStamps, d \in BlockData :
          HashOnlyAddBlock(HashOnlyBlock(NewRef, index, t, d, Str_empty))

\* addBlock(chain[j]): the argument is a block the chain already holds
AddHashedBlockAgain ==
    /\ program = "hash" /\ last.tamper = "none" /\ Length < MaxChain
    /\ \E j \in 0..(Length - 1) : HashOnlyAddBlock(At(j))

\* ------------------------------------- actions of the transaction ledger
Miners == {"lolle-address"}
Null == "null"

\* new Transaction(fromAddress, toAddress, amount); ref is the object's
\* identity
Transaction(ref, fromAddress, toAddress, amount) ==
    [ref |-> ref, fromAddress |-> fromAddress, toAddress |-> toAddress,
     amount |-> amount]

\* a reward whose sender and receiver are exchanged
Reward_Swapped(c, miningRewardAddress) ==
    Transaction(NewTransaction(c, 0), miningRewardAddress, Null, miningReward)

\* the reward of a mining round, constructed when the chain is c
Reward(c, miningRewardAddress) ==
    Transaction(NewTransaction(c, 0), Null, miningRewardAddress, miningReward)

\* a pool that keeps the mined transactions in front of the reward
RewardPool_Appended(c, miningRewardAddress) ==
    Array(NewArray, Append(pendingTransaction.items, Reward(c, miningRewardAddress)))

\* a pool that is the mined array itself, emptied and given the reward
RewardPool_SameArray(c, miningRewardAddress) ==
    [pendingTransaction EXCEPT !.items = <<Reward(c, miningRewardAddress)>>]

\* [new Transaction(null, miningRewardAddress, this.miningReward)]: a new
\* array, built when the chain is c
RewardPool(c, miningRewardAddress) ==
    Array(NewArray, <<Reward(c, miningRewardAddress)>>)

\* minePedingTransactions(miningRewardAddress): the block holds the pool's
\* array itself; the pool is then bound to a new array
MinePedingTransactions ==
    /\ program = "tx" /\ last.tamper = "none" /\ Length < MaxChain
    /\ \E miningRewardAddress \in Miners, t \in TimeStamps :
          LET new == TxBlock(NewRef, t, pendingTransaction, Str_empty)
              mined == mineBlock(new, difficulty)
              pushed == Push(chain, mined.block)
          IN  /\ mined.returns
              /\ chain' = pushed
              /\ pendingTransaction' = RewardPool(pushed, miningRewardAddress)
              /\ last' = Returned("minePedingTransactions", miningRewardAddress, new.ref)
    /\ UNCHANGED <<program, difficulty, miningReward, block>>

\* the transactions that clients submit, each a new object and each
\* transfer at most once per mining round
Submitted(ref) ==
    {Transaction(ref, "address1", "address2", 100),
     Transaction(ref, "address1", "address2", 200)}

\* what a transaction transfers
Transfer(t) == <<t.fromAddress, t.toAddress, t.amount>>

\* a push that puts t in front
ArrayPush_Front(array, t) == [array EXCEPT !.items = <<t>> \o @]

\* array.push(t)
ArrayPush(array, t) == [array EXCEPT !.items = Append(@, t)]

\* array.push(t) as the chain shows it: in every payload that is this array
PushInto(c, array, t) ==
    [j \in 1..Len(c) |->
        IF c[j].transaction.ref = array.ref
        THEN [c[j] EXCEPT !.transaction = ArrayPush(@, t)]
        ELSE c[j]]

\* createTransaction(transaction)
CreateTransaction ==
    /\ program = "tx" /\ last.tamper = "none"
    /\ Len(pendingTransaction.items) < MaxPending
    /\ \E transaction \in Submitted(NewTransaction(chain, Len(pendingTransaction.items))) :
          /\ \A k \in 1..Len(pendingTransaction.items) :
                Transfer(pendingTransaction.items[k]) # Transfer(transaction)
          /\ pendingTransaction' = ArrayPush(pendingTransaction, transaction)
          /\ chain' = PushInto(chain, pendingTransaction, transaction)
          /\ last' = Returned("createTransaction", transaction.toAddress, transaction.ref)
    /\ UNCHANGED <<program, difficulty, miningReward, block>>

\* chain[j].transaction = [], or with one more transaction when it was empty;
\* the stored hash left as it is
TamperTransaction ==
    /\ program = "tx" /\ last.tamper = "none"
    /\ \E j \in 1..(Length - 1) :
          LET forged == IF At(j).transaction.items = <<>>
                        THEN <<Transaction(NewTransaction(chain, MaxPending),
                                           "address1", "address2", 100)>>
                        ELSE <<>>
          IN  chain' = Store(chain, [At(j) EXCEPT
                                        !.transaction = Array(NewArray, forged)])
              /\ last' = Tampering("transaction", j, <<>>)
    /\ UNCHANGED <<program, difficulty, pendingTransaction, miningReward, block>>

\* an inner loop that adds what an address receives and never subtracts
RECURSIVE BalanceOverTransactions_CreditsOnly(_, _, _, _)
BalanceOverTransactions_CreditsOnly(ts, k, address, balance) ==
    IF k > Len(ts) THEN balance
    ELSE BalanceOverTransactions_CreditsOnly(ts, k + 1, address,
             IF ts[k].toAddress = address THEN balance + ts[k].amount ELSE balance)

\* getBalanceOfAddress: the inner loop over the transactions ts[k..] of one
\* block, from the balance so far
RECURSIVE BalanceOverTransactions(_, _, _, _)
BalanceOverTransactions(ts, k, address, balance) ==
    IF k > Len(ts) THEN balance
    ELSE LET trans == ts[k]
             sent == IF trans.fromAddress = address
                     THEN balance - trans.amount ELSE balance
             received == IF trans.toAddress = address
                         THEN sent + trans.amount ELSE sent
         IN  BalanceOverTransactions(ts, k + 1, address, received)

\* an outer loop that leaves out the last block
RECURSIVE BalanceOverBlocks_SkipsLast(_, _, _, _)
BalanceOverBlocks_SkipsLast(c, j, address, balance) ==
    IF j >= Len(c) THEN balance
    ELSE BalanceOverBlocks_SkipsLast(c, j + 1, address,
             BalanceOverTransactions(c[j].transaction.items, 1, address, balance))

\* getBalanceOfAddress: the outer loop over the blocks c[j..]
RECURSIVE BalanceOverBlocks(_, _, _, _)
BalanceOverBlocks(c, j, address, balance) ==
    IF j > Len(c) THEN balance
    ELSE BalanceOverBlocks(c, j + 1, address,
             BalanceOverTransactions(c[j].transaction.items, 1, address, balance))

\* a balance that counts the pending pool as one more block
getBalanceOfAddress_WithPending(address) ==
    BalanceOverTransactions(pendingTransaction.items, 1, address,
                            BalanceOverBlocks(chain, 1, address, 0))

\* getBalanceOfAddress(address)
getBalanceOfAddress(address) == BalanceOverBlocks(chain, 1, address, 0)

\* getBalanceOfAddress raises a TypeError: the payload of some block cannot
\* be iterated
getBalanceOfAddressRaises ==
    \E j \in 1..Len(chain) : ~Iterable(chain[j].transaction)

TypeError == [valid |-> FALSE, kind |-> "TypeError", index |-> 0]

\* the addresses balances are asked for
Addresses == {"address1", "address2", "lolle-address"}

\* console.log(poppiCoin.getBalanceOfAddress(address))
GetBalanceOfAddress ==
    /\ program = "tx" /\ last.tamper = "none" /\ last.op \notin Queries
    /\ \E address \in Addresses :
          last' = IF getBalanceOfAddressRaises
                  THEN [Returned("getBalanceOfAddress", address, 0)
                            EXCEPT !.result = TypeError]
                  ELSE Returned("getBalanceOfAddress", address,
                                getBalanceOfAddress(address))
    /\ UNCHANGED <<program, chain, difficulty, pendingTransaction, miningReward, block>>

\* a getLatestBlock that takes the block off the chain
GetLatestBlock_Pops ==
    /\ program \in {"tx", "hash"} /\ last.tamper = "none" /\ Length > 1
    /\ last' = Returned("getLatestBlock", "none", getLatestBlock.ref)
    /\ chain' = SubSeq(chain, 1, Length - 1)
    /\ UNCHANGED <<program, difficulty, pendingTransaction, miningReward, block>>

\* poppiCoin.getLatestBlock()
GetLatestBlock ==
    /\ program \in {"tx", "hash"} /\ last.tamper = "none" /\ last.op \notin Queries
    /\ last' = Returned("getLatestBlock", "none", getLatestBlock.ref)
    /\ UNCHANGED <<program, chain, difficulty, pendingTransaction, miningReward, block>>

\* some field of a block was assigned from outside the classes
Tampered == last.tamper # "none"

Next ==
    \/ MinePedingTransactions
    \/ CreateTransaction
    \/ GetBalanceOfAddress
    \/ GetLatestBlock
    \/ TamperTransaction
    \/ AddBlock
    \/ AddBlockAgain
    \/ AddHashedBlock
    \/ AddHashedBlockAgain
    \/ SetDifficulty
    \/ IsChainValid
    \/ TamperData
    \/ TamperDataRehash
    \/ TamperGenesis

Spec == Init /\ [][Next]_vars

\* ------------------------------------------- mineBlock called directly
\* the states a Block can be in when mineBlock is called on it: as built by
\* the constructor, or with fields assigned since (prevHash, nonce, hash)
StartingBlocks ==
    { [base EXCEPT !.prevHash = p, !.nonce = n, !.hash = h] :
        base \in { PowBlock(1, 1, t, d, Str_empty) : t \in TimeStamps, d \in BlockData },
        p \in {Str_empty, Str_zero},
        n \in {0, 1, 9},
        h \in {Str_empty, Str_zero, ArrayJoinZero(MaxDifficulty), <<"f", "0">>} }
    \cup
    { [base EXCEPT !.hash = PowCalculateHash(base)] :
        base \in { PowBlock(1, 1, t, d, p) : t \in TimeStamps, d \in BlockData,
                                             p \in {Str_empty, Str_zero} } }
    \cup
    { PowBlock(1, 1, t, d, p) : t \in TimeStamps, d \in BlockData, p \in {Str_empty, Str_zero} }

InitMine ==
    /\ program = "mine"
    /\ chain = <<PowGenesisBlock(<<"1">>)>>
    /\ difficulty = InitialDifficulty
    /\ pendingTransaction = Array(1, <<>>)
    /\ miningReward = 0
    /\ block \in StartingBlocks
    /\ last = Call("constructor", 0, NoResult)

\* block.mineBlock(d)
MineBlock ==
    /\ program = "mine" /\ last.op = "constructor"
    /\ \E d \in 0..MaxDifficulty :
          LET mined == mineBlock(block, d)
          IN  /\ mined.returns
              /\ block' = mined.block
              /\ last' = Call("mineBlock", d, NoResult)
    /\ UNCHANGED <<program, chain, difficulty, pendingTransaction, miningReward>>

NextMine == MineBlock

SpecMine == InitMine /\ [][NextMine]_vars

\* ------------------------------- fields of a mined block assigned together
\* the nonce a block is given before it is handed to addBlock
PresetNonces == {8, 9}

InitForge ==
    /\ program = "forge"
    /\ \E t \in TimeStamps : chain = <<PowGenesisBlock(t)>>
    /\ difficulty = InitialDifficulty
    /\ pendingTransaction = Array(1, <<>>)
    /\ miningReward = 0
    /\ block = PowGenesisBlock(<<"1">>)
    /\ last = Call("constructor", 0, NoResult)

\* b = new Block(index, createTimeStamp(), data); b.nonce = n; addBlock(b)
AddPresetBlock ==
    /\ program = "forge" /\ last.tamper = "none" /\ Length < MaxChain
    /\ \E index \in Indices, t \in TimeStamps, d \in BlockData, n \in PresetNonces :
          addBlock([PowBlock(NewRef, index, t, d, Str_empty) EXCEPT !.nonce = n])

\* the fields of b with the boundaries of the hashed text moved: the
\* serialized data and the leading digits of the nonce go to the timestamp,
\* the next digit becomes the data, the last digit stays the nonce
Forged(b) ==
    [b EXCEPT !.timestamp = b.timestamp \o JSONstringify(b.data),
              !.data = Number(b.nonce \div 10),
              !.nonce = b.nonce % 10]

\* chain[j].timestamp = ...; chain[j].data = ...; chain[j].nonce = ...,
\* the stored hash left as it is
ForgeFields ==
    /\ program = "forge" /\ last.tamper = "none"
    /\ \E j \in 1..(Length - 1) :
          /\ At(j).nonce >= 10
          /\ chain' = Store(chain, Forged(At(j)))
          /\ last' = Tampering("fields", j, JSONstringify(At(j).data))
    /\ UNCHANGED <<program, difficulty, pendingTransaction, miningReward, block>>

NextForge ==
    \/ AddPresetBlock
    \/ ForgeFields
    \/ IsChainValid

SpecForge == InitForge /\ [][NextForge]_vars

\* ======================================================== the claims
Report(kind, j) == [valid |-> FALSE, kind |-> kind, index |-> j]
Refs(c) == [j \in 1..Len(c) |-> c[j].ref]
IsPrefix(s, t) == Len(s) <= Len(t) /\ \A j \in 1..Len(s) : s[j] = t[j]

\* C1: a chain of index.js built through addBlock alone is valid
C1_BuiltChainIsValid ==
    (program = "pow" /\ ~Tampered) => isChainValid

\* C2: a ledger built through createTransaction and minePedingTransactions
\* alone is valid
C2_MinedLedgerIsValid ==
    (program = "tx" /\ ~Tampered) => isChainValid

\* C3: the block minePedingTransactions appends has the hash of the previous
\* tip as its prevHash
C3_MinedBlockLinksToTip ==
    (program = "tx" /\ last.op = "minePedingTransactions")
        => At(Length - 1).prevHash = At(Length - 2).hash

\* C4: after chain[i].data is changed (i >= 1, stored hash kept),
\* isChainValid() returns false and reports the hash mismatch of block i
C4_DataTamperReportedAtBlock ==
    (program = "pow" /\ last.tamper = "data" /\ last.at >= 1)
        => ValidationReport = Report("Hash mismatch", last.at)

\* C5: calculateHash() of the transaction ledger covers the block's
\* transactions: after the transactions of a mined block are changed (stored
\* hash kept) the block's hash check fails and isChainValid() returns false
C5_TransactionTamperDetected ==
    (program = "tx" /\ last.tamper = "transaction")
        => (HashMismatch(chain, last.at) /\ ~isChainValid)

\* C6: after chain[i].data is changed and chain[i].hash recomputed
\* (1 <= i < chain.length - 1), isChainValid() returns false and reports the
\* prevHash mismatch of block i + 1
C6_RehashReportedAtSuccessor ==
    (program = "pow" /\ last.tamper = "dataRehash"
        /\ last.at >= 1 /\ last.at < Length - 1)
        => ValidationReport = Report("Prev hash mismatch", last.at + 1)

C8_MinedHashHasZeroPrefix ==
    (program = "mine" /\ last.op = "mineBlock")
        => (Len(block.hash) >= last.i /\ \A k \in 1..last.i : block.hash[k] = "0")

C8_Witness ==
    /\ program = "mine" /\ last.op = "mineBlock" /\ last.i = 2
    /\ block.nonce \notin {0, 1, 9}

\* C9: in every state the ledger operations reach the chain is not empty and
\* chain[0].prevHash is "0"
C9_GenesisInvariant ==
    /\ last.op = "constructor" => Length = 1
    /\ ~Tampered => (Length >= 1 /\ At(0).prevHash = Str_zero)

\* C10: over every step the block objects of the chain before it are a prefix
\* of those after it; addBlock and minePedingTransactions add exactly one
\* block, every other step leaves the length as it is
C10_AppendOnly ==
    [][/\ IsPrefix(Refs(chain), Refs(chain'))
       /\ Len(chain') = Len(chain)
            + (IF last'.op \in {"addBlock", "minePedingTransactions"} THEN 1 ELSE 0)]_vars

C10_Witness ==
    /\ Length = 3 /\ last.op \in {"addBlock", "minePedingTransactions"}
    /\ chain[1].ref # chain[3].ref

\* C11: in the hash-only chain a fresh Blockchain has one block, and after
\* any number of addBlock calls, whatever block each is given, isChainValid()
\* returns true (each call adds one block: C10)
C11_HashOnlyChainIsValid ==
    (program = "hash" /\ ~Tampered)
        => /\ last.op = "constructor" => Length = 1
           /\ isChainValid

\* the transfers of a sequence of transactions, in its order
Transfers(ts) == [k \in 1..Len(ts) |-> Transfer(ts[k])]

\* C12: over every minePedingTransactions(addr) step, the payload of the
\* appended block is the pending pool as it was before the call (the same
\* transaction objects in the same order), and the pool after the call holds
\* one transaction: from null, to addr, of amount miningReward
C12_MinedPayloadIsThePool ==
    [][last'.op = "minePedingTransactions"
        => /\ Len(chain') = Len(chain) + 1
           /\ chain'[Len(chain')].transaction.items = pendingTransaction.items
           /\ Transfers(pendingTransaction'.items)
                = <<<<Null, last'.address, miningReward>>>>]_vars

C12_Witness ==
    /\ program = "tx" /\ last.op = "minePedingTransactions" /\ Length = 3
    /\ Transfers(At(2).transaction.items)
         = <<<<Null, "lolle-address", 100>>, <<"address1", "address2", 200>>>>
    /\ Transfers(pendingTransaction.items) = <<<<Null, "lolle-address", 100>>>>

\* a ledger with one mined block, whose payload is the two transfers of the
\* driver in the order they were submitted
FirstRoundMined ==
    /\ program = "tx" /\ ~Tampered /\ Length = 2
    /\ Transfers(At(1).transaction.items)
         = <<<<"address1", "address2", 100>>, <<"address1", "address2", 200>>>>

\* C13: after createTransaction(A -> B, 100), createTransaction(A -> B, 200)
\* and one minePedingTransactions(M) on a fresh ledger, the balance of M is
\* miningReward, that of B is 300 and that of A is -300
C13_MinerPaidAfterFirstRound ==
    FirstRoundMined
        => /\ getBalanceOfAddress("lolle-address") = miningReward
           /\ getBalanceOfAddress("address2") = 300
           /\ getBalanceOfAddress("address1") = -300

\* C13, amended: after the same calls the balance of M is 0 (its reward is
\* still in the pending pool), that of B is 300 and that of A is -300
C13_MinerUnpaidAfterFirstRound ==
    FirstRoundMined
        => /\ getBalanceOfAddress("lolle-address") = 0
           /\ getBalanceOfAddress("address2") = 300
           /\ getBalanceOfAddress("address1") = -300

C13_Witness ==
    /\ FirstRoundMined
    /\ last.op = "getBalanceOfAddress" /\ last.address = "lolle-address"
    /\ last.value = 0
    /\ Transfers(pendingTransaction.items) = <<<<Null, "lolle-address", 100>>>>

\* a ledger after two minePedingTransactions(M) calls on a fresh ledger,
\* with nothing submitted before or between them
TwoRoundsMined ==
    /\ program = "tx" /\ ~Tampered /\ Length = 3
    /\ At(1).transaction.items = <<>>
    /\ Len(At(2).transaction.items) = 1

\* C14: after two consecutive minePedingTransactions(M) calls on a fresh
\* ledger the payload of the second appended block is the one reward
\* transaction the first call constructed, and the balance of M is
\* 2 * miningReward
C14_MinerPaidTwice ==
    TwoRoundsMined
        => /\ At(2).transaction.items = <<Reward(SubSeq(chain, 1, 2), "lolle-address")>>
           /\ getBalanceOfAddress("lolle-address") = 2 * miningReward

\* C14, amended: the payload of the second appended block is the one reward
\* transaction the first call constructed, and the balance of M is
\* miningReward (the reward of the second call is still in the pending pool)
C14_MinerPaidOnce ==
    TwoRoundsMined
        => /\ At(2).transaction.items = <<Reward(SubSeq(chain, 1, 2), "lolle-address")>>
           /\ getBalanceOfAddress("lolle-address") = miningReward

C14_Witness ==
    /\ TwoRoundsMined
    /\ last.op = "getBalanceOfAddress" /\ last.address = "lolle-address"
    /\ last.value = miningReward
    /\ pendingTransaction.items = <<Reward(chain, "lolle-address")>>

\* the places <<j, k>> of the transactions in mined blocks: every block
\* after the genesis block, nothing of the pending pool
Mined == {<<j, k>> \in (2..Len(chain)) \X (1..(MaxPending + 1)) :
             k <= Len(chain[j].transaction.items)}
MinedAt(p) == chain[p[1]].transaction.items[p[2]]

RECURSIVE SumAmounts(_)
SumAmounts(places) ==
    IF places = {} THEN 0
    ELSE LET p == CHOOSE q \in places : TRUE
         IN  MinedAt(p).amount + SumAmounts(places \ {p})

RECURSIVE SumBalances(_)
SumBalances(addresses) ==
    IF addresses = {} THEN 0
    ELSE LET a == CHOOSE b \in addresses : TRUE
         IN  getBalanceOfAddress(a) + SumBalances(addresses \ {a})

MinedAddresses ==
    ({MinedAt(p).fromAddress : p \in Mined} \cup {MinedAt(p).toAddress : p \in Mined})
        \ {Null}
MinedRewards == {p \in Mined : MinedAt(p).fromAddress = Null}

\* C15: in every state of the transaction ledger the balances of the
\* addresses (other than null) that occur in mined transactions add up to
\* miningReward times the number of mined transactions sent from null; to 0
\* when no such transaction is mined
C15_BalanceConservation ==
    program = "tx"
        => SumBalances(MinedAddresses) = miningReward * Cardinality(MinedRewards)

C15_Witness ==
    /\ program = "tx" /\ Length = 3
    /\ Cardinality(MinedRewards) = 1
    /\ MinedAddresses = {"address1", "address2", "lolle-address"}
    /\ getBalanceOfAddress("address1") = -500
    /\ SumBalances(MinedAddresses) = 100

\* C16: for every address, getBalanceOfAddress returns what the mined
\* transactions send to it minus what they send from it, over every block;
\* the genesis block and the pending pool count for nothing
C16_BalanceIsReceivedMinusSent ==
    program = "tx"
        => \A a \in Addresses \cup {Null} :
              getBalanceOfAddress(a)
                = SumAmounts({p \in Mined : MinedAt(p).toAddress = a})
                    - SumAmounts({p \in Mined : MinedAt(p).fromAddress = a})

C16_Witness ==
    /\ program = "tx" /\ Length = 3
    /\ last.op = "getBalanceOfAddress" /\ last.address = "address2"
    /\ last.value = 400
    /\ Len(pendingTransaction.items) = 2
    /\ pendingTransaction.items[2].toAddress = "address2"

\* C17: over every getBalanceOfAddress, isChainValid and getLatestBlock
\* step the chain with every field of every block, the pending pool, the
\* difficulty and the mining reward stay as they are
C17_QueriesChangeNothing ==
    [][last'.op \in Queries
        => UNCHANGED <<chain, pendingTransaction, difficulty, miningReward>>]_vars

C17_Witness ==
    /\ program = "tx" /\ Length = 3 /\ Len(pendingTransaction.items) = 2
    /\ last.op = "getLatestBlock" /\ last.value = At(2).ref

\* C18: over every createTransaction(tx) step the pending pool is the pool
\* before it with tx added at its end, and the chain and the balance of
\* every address stay as they are; the call goes through whatever the
\* sender's balance
C18_CreateTransactionAppends ==
    [][last'.op = "createTransaction"
        => /\ Len(pendingTransaction'.items) = Len(pendingTransaction.items) + 1
           /\ SubSeq(pendingTransaction'.items, 1, Len(pendingTransaction.items))
                = pendingTransaction.items
           /\ pendingTransaction'.items[Len(pendingTransaction'.items)].ref = last'.value
           /\ pendingTransaction'.ref = pendingTransaction.ref
           /\ chain' = chain
           /\ \A a \in Addresses \cup {Null} :
                 getBalanceOfAddress(a)' = getBalanceOfAddress(a)]_vars

C18_Witness ==
    /\ program = "tx" /\ last.op = "createTransaction" /\ Length = 2
    /\ Transfers(pendingTransaction.items)
         = <<<<Null, "lolle-address", 100>>, <<"address1", "address2", 200>>>>
    /\ last.value = pendingTransaction.items[2].ref
    /\ getBalanceOfAddress("address1") = -300

\* the array and the transaction objects of the pending pool are in no
\* block of the chain
NoSharedStorage ==
    \A j \in 1..Len(chain) :
        /\ chain[j].transaction.ref # pendingTransaction.ref
        /\ \A k \in 1..Len(chain[j].transaction.items),
              m \in 1..Len(pendingTransaction.items) :
              chain[j].transaction.items[k].ref # pendingTransaction.items[m].ref

Payloads(c) == [j \in 1..Len(c) |-> c[j].transaction]

\* C19: when minePedingTransactions has returned the pending pool shares no
\* array and no transaction with a block of the chain, and a createTransaction
\* after it leaves the payload of every block of the chain as it is
C19_PoolSharesNothingWithBlocks ==
    [][/\ last'.op = "minePedingTransactions" => NoSharedStorage'
       /\ last'.op = "createTransaction"
            => (NoSharedStorage' /\ Payloads(chain') = Payloads(chain))]_vars

C19_Witness ==
    /\ program = "tx" /\ last.op = "createTransaction" /\ Length = 3
    /\ Len(At(1).transaction.items) = 2 /\ Len(At(2).transaction.items) = 2
    /\ Len(pendingTransaction.items) = 2
    /\ NoSharedStorage

\* C20: no call of a ledger operation raises an error, the balance of an
\* address on a chain of the genesis block alone included; the chain never
\* runs empty under getLatestBlock().hash; that a chain is invalid shows
\* only in what isChainValid() returns
C20_NoOperationRaises ==
    /\ last.result # TypeError
    /\ program = "tx" => ~getBalanceOfAddressRaises
    /\ ~Tampered => Length >= 1
    /\ (last.op = "isChainValid" /\ ~isChainValid) => last.result.valid = FALSE
    /\ last.op # "isChainValid" => last.result = NoResult

C20_Witness ==
    /\ program = "tx" /\ Length = 1
    /\ last.op = "getBalanceOfAddress" /\ last.address = "lolle-address"
    /\ last.result = NoResult /\ last.value = 0

\* C21: mineBlock(d) returns for every difficulty d >= 0 and every state
\* the block is in when it is called (the loop is followed for MaxNonce
\* iterations)
C21_MineBlockReturns ==
    (program = "mine" /\ last.op = "constructor")
        => \A d \in 0..MaxDifficulty : mineBlock(block, d).returns

\* C22: over every addBlock(b) step, of index.js and of the hash-only chain,
\* b is the last block of the chain afterwards and its prevHash is the hash
\* the tip had before the call, whatever prevHash b held when it was handed in
C22_AddBlockLinksToOldTip ==
    [][last'.op = "addBlock"
        => /\ chain'[Len(chain')].ref = last'.i
           /\ chain'[Len(chain')].prevHash = chain[Len(chain)].hash]_vars

C22_Witness ==
    /\ program \in {"pow", "hash"} /\ last.op = "addBlock" /\ Length = 3
    /\ At(2).ref = 0 /\ At(0).ref = 0 /\ At(1).ref = 1
    /\ At(2).prevHash # Str_zero /\ At(2).prevHash # Str_empty

\* the indices from 1 on at which a check of isChainValid fails
Failing ==
    {i \in 1..(Length - 1) :
        At(i).hash # calculateHash(At(i)) \/ At(i).prevHash # At(i - 1).hash}

\* C23: isChainValid() returns true exactly when every block from index 1 on
\* has hash = calculateHash() and prevHash = the hash of the block before it;
\* when it returns false it reports the smallest index that fails, as a hash
\* mismatch if the hash check fails there and as a link mismatch otherwise
C23_ValidIffEveryBlockPasses ==
    last.op = "isChainValid"
        => /\ last.result.valid <=> Failing = {}
           /\ ~last.result.valid
                => /\ last.result.index \in Failing
                   /\ \A i \in Failing : last.result.index <= i
                   /\ last.result.kind =
                        IF At(last.result.index).hash
                             # calculateHash(At(last.result.index))
                        THEN "Hash mismatch" ELSE "Prev hash mismatch"

C23_Witness ==
    /\ last.op = "isChainValid" /\ Length = 3
    /\ last.result = Report("Hash mismatch", 2)
    /\ At(2).prevHash # At(1).hash
    /\ Failing = {2}

\* C24: over every step that assigns a field of chain[0] other than its
\* hash (data, timestamp, index, prevHash, nonce), isChainValid() returns
\* afterwards what it returned before; a chain of one block is valid
C24_GenesisNotRevalidated ==
    [][/\ (last'.tamper = "genesis" \/ (last'.tamper = "data" /\ last'.at = 0))
            => Validation(chain').valid = Validation(chain).valid
       /\ Len(chain') = 1 => Validation(chain').valid]_vars

C24_Witness ==
    /\ program = "hash" /\ last.tamper = "genesis" /\ Length = 3
    /\ At(0).hash # calculateHash(At(0))
    /\ isChainValid
    /\ \A j \in 1..Length, k \in 1..Length : j # k => chain[j].ref # chain[k].ref

\* the blocks after the genesis whose hash lacks the `difficulty` leading zeros
Unworked == {j \in 1..(Length - 1) : NotMined(At(j), difficulty)}

\* C25: isChainValid() does not ask for the proof of work: a chain whose
\* blocks after the genesis all match their stored hash and link to the hash
\* of the block before is reported valid, also when the hash of one of them
\* does not start with `difficulty` zeros
C25_WorkNotValidated ==
    (program = "pow" /\ last.op = "isChainValid" /\ Failing = {} /\ Unworked # {})
        => last.result = NoResult

C25_Witness ==
    /\ program = "pow" /\ last.op = "isChainValid" /\ last.tamper = "dataRehash"
    /\ difficulty = InitialDifficulty /\ Length = 3
    /\ Failing = {} /\ Unworked = {2}
    /\ last.result.valid

C27_ConstructedBlockMatchesHash ==
    (program \in {"pow", "tx"} /\ last.op = "constructor")
        => (At(0).nonce = 0 /\ At(0).hash = calculateHash(At(0)))

\* C28: whenever mineBlock(d) returns, the stored hash of the block equals
\* calculateHash() over its current fields, the case in which the loop body
\* never ran included
C28_MinedBlockMatchesHash ==
    (program = "mine" /\ last.op = "mineBlock") => block.hash = calculateHash(block)

\* C29: over every step of a ledger operation (addBlock,
\* minePedingTransactions, createTransaction, getBalanceOfAddress,
\* isChainValid) every block the chain held before the step has afterwards
\* the fields it had, whatever the argument
C29_AppendedBlocksImmutable ==
    [][last'.op \in {"addBlock", "minePedingTransactions", "createTransaction",
                      "getBalanceOfAddress", "isChainValid"}
        => \A j \in 1..Len(chain) : chain'[j] = chain[j]]_vars

\* C30: in index.js, once fields among index, prevHash, timestamp, data and
\* nonce of a mined block at index >= 1 were assigned other values and its
\* stored hash was left as it is, isChainValid() returns false
C30_FieldChangeDetected ==
    (program = "forge" /\ last.tamper = "fields" /\ last.at >= 1) => ~isChainValid

\* the places <<j, k>> at which the blocks of c after the genesis hold the
\* transaction object r, and the places at which the pool p holds it
BlockPlaces(c, r) ==
    {q \in (2..Len(c)) \X (1..(MaxPending + 1)) :
        /\ q[2] <= Len(c[q[1]].transaction.items)
        /\ c[q[1]].transaction.items[q[2]].ref = r}
PoolPlaces(p, r) == {k \in 1..Len(p.items) : p.items[k].ref = r}

\* C31: over every step of a ledger operation: a transaction handed to
\* createTransaction is a new entry at the end of the pending pool and in no
\* block; a transaction of the pool stays at its place in the pool and in no
\* block until minePedingTransactions is called, and that call puts it at
\* the same place into the block it appends, into no other block and out of
\* the pool; a transaction of a block stays at that one place and out of
\* the pool
C31_MinedOnceByNextRound ==
    [][last'.op # "assignment" /\ program = "tx" =>
        /\ last'.op = "createTransaction" =>
              /\ PoolPlaces(pendingTransaction, last'.value) = {}
              /\ BlockPlaces(chain, last'.value) = {}
              /\ PoolPlaces(pendingTransaction', last'.value)
                    = {Len(pendingTransaction.items) + 1}
        /\ \A k \in 1..Len(pendingTransaction.items) :
              LET r == pendingTransaction.items[k].ref
              IN  IF last'.op = "minePedingTransactions"
                  THEN /\ BlockPlaces(chain', r) = {<<Len(chain) + 1, k>>}
                       /\ PoolPlaces(pendingTransaction', r) = {}
                  ELSE /\ BlockPlaces(chain', r) = {}
                       /\ PoolPlaces(pendingTransaction', r) = {k}
        /\ \A j \in 2..Len(chain) : \A k \in 1..Len(chain[j].transaction.items) :
              LET r == chain[j].transaction.items[k].ref
              IN  /\ BlockPlaces(chain', r) = {<<j, k>>}
                  /\ PoolPlaces(pendingTransaction', r) = {}]_vars

C31_Witness ==
    /\ program = "tx" /\ last.op = "minePedingTransactions" /\ Length = 3
    /\ Len(At(1).transaction.items) = 2 /\ Len(At(2).transaction.items) = 2
    /\ At(1).transaction.items[2].fromAddress = "address1"
    /\ At(2).transaction.items[2].fromAddress = "address1"
    /\ BlockPlaces(chain, At(1).transaction.items[2].ref) = {<<2, 2>>}
    /\ BlockPlaces(chain, At(2).transaction.items[2].ref) = {<<3, 2>>}
    /\ Len(pendingTransaction.items) = 1

====
